---- MODULE Spec2Model ----
(***************************************************************************)
(* Model of the tramp! macro of src/src/lib.rs: dynamically scoped         *)
(* overlays of thread_local RefCell slots with scopeguard restoration.     *)
(*                                                                         *)
(* A macro invocation is expanded (Expand) into the statement sequence     *)
(* the two macro arms produce; a thread executes that sequence one         *)
(* statement at a time.  Slot values are abstract tokens: 0 stands for     *)
(* the declared initial value of a slot (0 for FOO, "" for BAR).           *)
(***************************************************************************)
EXTENDS Integers, Sequences, FiniteSets, TLC

VARIABLES th, slots
vars == <<th, slots>>

\* ---- bounds ------------------------------------------------------------
MaxVal == 2
MaxBind == 3
MaxDepth == 2
MaxInner == 1
MaxWrites == 1
MaxRootWrites == 1

\* ---- declared variables and threads ------------------------------------
Vars == {"FOO", "BAR"}
Threads == {1, 2}
Vals == 0 .. MaxVal
NewVals == 1 .. MaxVal
InitVal(v) == 0

\* mutant: the slots are plain statics shared by all threads
SlotShared(t) == CHOOSE u \in Threads : \A w \in Threads : u <= w

\* thread_local!: every thread owns its own cell for each declared static
SlotOf(t) == t

\* ---- values of expressions and blocks ----------------------------------
Unit == <<>>
Value(x) == <<x>>

\* an expression $eh: a constant, one that panics, one that reads the slot
\* src, or one that first assigns w to the slot it is bound to
Expr(kind, val, src, w) == [kind |-> kind, val |-> val, src |-> src, w |-> w]
Const(x) == Expr("const", x, "-", 0)
Panics == Expr("panic", 0, "-", 0)
NoExpr == Expr("none", 0, "-", 0)
ReadOf(v) == Expr("read", 0, v, 0)
WriteThen(w, x) == Expr("write", x, "-", w)
WriteThenPanics(w) == Expr("wpanic", 0, "-", w)
Exprs == {Const(x) : x \in NewVals} \cup {Panics}
Binding(v, e) == [v |-> v, e |-> e]
Bindings == {Binding(v, e) : v \in Vars, e \in Exprs}
ListsOver(S, lo, hi) == UNION {[1 .. n -> S] : n \in lo .. hi}
BindLists == ListsOver(Bindings, 1, MaxBind)
InnerLists == ListsOver(Bindings, 1, MaxInner)

Butlast(s) == SubSeq(s, 1, Len(s) - 1)
Last(s) == s[Len(s)]

\* ---- macro expansion ---------------------------------------------------
I(op, v, e) == [op |-> op, v |-> v, e |-> e]
\* mutant: the install goes to a slot the binding does not name
InstOther(b) == I("inst", CHOOSE w \in Vars : w # b.v, b.e)

Inst(b) == I("inst", b.v, b.e)
Defer(b) == I("defer", b.v, NoExpr)
Open == I("open", "-", NoExpr)
Close == I("close", "-", NoExpr)
Discard == I("semi", "-", NoExpr)
Blk == I("blk", "-", NoExpr)
End == I("end", "-", NoExpr)
\* the invocation tramp![=> $b] that no arm matches
NoRule == I("norule", "-", NoExpr)

\* mutant: the restoration is never registered
SingleArmNoGuard(b, body) == <<Inst(b), Open>> \o body \o <<Close>>

\* mutant: the guard is dropped as soon as it is made, before $b runs
SingleArmEarly(b, body) == <<Inst(b), Open, Defer(b), Close>> \o body

\* second arm: let old = $ih.with(..); { defer![..]; $b }
SingleArm(b, body) == <<Inst(b), Open, Defer(b)>> \o body \o <<Close>>

RECURSIVE Expand(_)
\* mutant: the arm's block ends before the remaining bindings are expanded
MultiArmEarlyClose(bs) ==
  <<Open, Inst(Head(bs)), Defer(Head(bs)), Close>> \o Expand(Tail(bs)) \o <<Discard>>

\* mutant: only the innermost binding gets a restoration
MultiArmNoDefer(bs) ==
  <<Open, Inst(Head(bs))>> \o Expand(Tail(bs)) \o <<Discard, Close>>

\* mutant: the recursion peels the last binding instead of the first
MultiArmLastFirst(bs) ==
  <<Open, Inst(Last(bs)), Defer(Last(bs))>> \o Expand(Butlast(bs)) \o <<Discard, Close>>

\* first arm: { let old = $ih.with(..); defer![..]; tramp![rest => $b]; }
MultiArm(bs) ==
  <<Open, Inst(Head(bs)), Defer(Head(bs))>> \o Expand(Tail(bs)) \o <<Discard, Close>>

\* macro_rules! tries the arms in order: the first arm needs a comma after
\* the first binding, the second arm takes exactly one binding; there is no
\* arm for an empty binding list
Expand(bs) ==
  IF Len(bs) >= 2 THEN MultiArm(bs)
  ELSE IF Len(bs) = 1 THEN SingleArm(bs[1], <<Blk>>)
  ELSE <<NoRule>>

\* the tokens `V1: n1, ..., Vk: nk => $b`, or with comma the same with a
\* comma before `=>`: $($it : $et),* matches no trailing comma, but it
\* matches nothing at all, so `V1: n1, => $b` is taken by the first arm
ExpandTokens(bs, comma) ==
  IF ~comma THEN Expand(bs)
  ELSE IF Len(bs) = 1 THEN MultiArm(bs)
  ELSE <<NoRule>>

\* an expansion that reaches an invocation no arm matches is a compile error
Compiles(code) == \A n \in 1 .. Len(code) : code[n].op # "norule"

\* the hand-nested form: tramp!{V1: n1 => { tramp!{V2: n2 => ... $b } }}
RECURSIVE NestedExpand(_)
NestedExpand(bs) ==
  SingleArm(Head(bs), IF Len(bs) = 1 THEN <<Blk>> ELSE NestedExpand(Tail(bs)))

\* ---- thread state ------------------------------------------------------
\* st    : "idle" | "run" | "panic" | "return" | "done"
\* code  : the statements still to execute (head first)
\* scopes: the open block scopes, innermost last, each with its scope guards
\* cap   : the `old` local bound by the last install, not yet moved to a guard
\* val   : value of the last completed block / invocation
\* err   : payload of the panic in flight
\* how   : how the finished top-level invocation ended
\* acts  : history, one record per active invocation: its bindings, the
\*         slots at entry, whether user code wrote a slot since, how its
\*         block ended ("-" while it has not) and with which value/payload
\* fin   : history, the record of the finished top-level invocation
\* log   : history of the slot writes made by install and restore
\* nw    : number of direct slot writes the blocks have made
\* bor   : per declared variable, the borrow of its RefCell that user code
\*         holds on this thread: "free" | "shared" | "mut"
\* fail  : history, the operation of the macro whose borrow panicked
\*         ("-" | "install" | "restore")
\* st = "abort": a guard panicked while a panic was unwinding; the process
\* is terminated
IdleThread ==
  [st |-> "idle", code |-> <<>>, scopes |-> <<>>, cap |-> <<>>, val |-> Unit,
   err |-> <<>>, how |-> "-", acts |-> <<>>, log |-> <<>>, nw |-> 0,
   fin |-> <<>>, bor |-> [v \in Vars |-> "free"], fail |-> "-"]

Guard(v, old) == [v |-> v, old |-> old]
Event(k, v, d) == [k |-> k, v |-> v, d |-> d]
Act(bs, snap) ==
  [bs |-> bs, snap |-> snap, wrote |-> FALSE, bexit |-> "-", bval |-> Unit]

Mine(t) == slots[SlotOf(t)]
Depth(t) == Len(th[t].acts)
AtOp(t, op) == th[t].code # <<>> /\ Head(th[t].code).op = op

\* unwinding leaves the statements up to the end of the innermost open scope
\* (or the end of the invocation) unexecuted
RECURSIVE Skip(_, _)
Skip(code, n) ==
  IF code = <<>> THEN code
  ELSE IF Head(code).op = "open" THEN Skip(Tail(code), n + 1)
  ELSE IF Head(code).op = "close"
       THEN IF n = 0 THEN code ELSE Skip(Tail(code), n - 1)
  ELSE IF Head(code).op = "end" THEN code
  ELSE Skip(Tail(code), n)

RECURSIVE DropToEnd(_)
DropToEnd(code) ==
  IF code = <<>> \/ Head(code).op = "end" THEN code ELSE DropToEnd(Tail(code))

\* mutant: the restoration is an ordinary statement after $b, which an early
\* `return` jumps over
RestReturnLeaks(st, code) ==
  IF st = "run" THEN Tail(code)
  ELSE IF st = "return" THEN DropToEnd(Tail(code))
  ELSE Skip(Tail(code), 0)

\* mutant: the restoration is an ordinary statement after $b, which an unwind
\* never reaches
RestPanicLeaks(st, code) ==
  IF st = "run" THEN Tail(code)
  ELSE IF st = "panic" THEN DropToEnd(Tail(code))
  ELSE Skip(Tail(code), 0)

\* what runs next: the next statement, or when unwinding the end of the
\* innermost open scope
Rest(st, code) == IF st = "run" THEN Tail(code) ELSE Skip(Tail(code), 0)

\* mutant: `old` aliases the cell, so writing it back changes nothing
FireSlotsAliased(s, gs) == s

\* scope guards are dropped in reverse order of declaration; each runs
\* $ih.with(|x| { *x.borrow_mut() = old.clone(); })
RECURSIVE FireSlots(_, _)
FireSlots(s, gs) ==
  IF gs = <<>> THEN s
  ELSE FireSlots([s EXCEPT ![Last(gs).v] = Last(gs).old], Butlast(gs))

RECURSIVE FireLog(_, _)
FireLog(gs, d) ==
  IF gs = <<>> THEN <<>>
  ELSE <<Event("restore", Last(gs).v, d)>> \o FireLog(Butlast(gs), d)

\* a panic or `return` leaves the blocks of the invocations 1 .. n
BlocksLeft(acts, n, kind, x) ==
  [d \in 1 .. Len(acts) |->
     IF d <= n THEN [acts[d] EXCEPT !.bexit = kind, !.bval = Value(x)] ELSE acts[d]]

\* mutant: the restoration target is the declared initial value
CaptureInitial(s, v) == InitVal(v)

\* x.borrow().clone()
Capture(s, v) == s[v]

\* RefCell: borrow() panics while a mutable borrow is out, borrow_mut()
\* panics while any borrow is out
CanBorrow(bor, v) == bor[v] # "mut"
CanBorrowMut(bor, v) == bor[v] = "free"
\* payload of the panic of a failed borrow: none of the user code's payloads
BorrowPayload == MaxVal + 1

\* the guards of a scope whose closure can take its borrow_mut()
Runnable(gs, bor) == SelectSeq(gs, LAMBDA g : CanBorrowMut(bor, g.v))

\* $eh may assign the slot it is bound to before it yields its value
EvalSlots(e, s, v) ==
  IF e.kind \in {"write", "wpanic"} THEN [s EXCEPT ![v] = e.w] ELSE s
\* $eh may panic instead of yielding a value
Unwinds(e) == e.kind \in {"panic", "wpanic"}
\* $eh may read a slot
EvalValue(e, s) == IF e.kind = "read" THEN s[e.src] ELSE e.val

\* mutant: the cleanup catches the panic and lets execution go on
AfterGuardCaught(st) == IF st = "panic" THEN "run" ELSE st

\* scopeguard only runs the closure: it neither catches nor converts a panic
AfterGuard(st) == st

\* mutant: $eh is evaluated first and the capture sees what it wrote
OldValueAfterEval(s, e, v) == Capture(EvalSlots(e, s, v), v)

\* let old = x.borrow().clone(); comes before *x.borrow_mut() = $eh;
OldValue(s, e, v) == Capture(s, v)

Init ==
  /\ th = [t \in Threads |-> IdleThread]
  /\ slots = [t \in Threads |-> [v \in Vars |-> InitVal(v)]]

\* ---- the caller ---------------------------------------------------------
\* code outside any overlay may assign a slot directly
CanRootWrite(t, v, x) ==
  /\ th[t].st = "idle"
  /\ Cardinality({w \in Vars : Mine(t)[w] # InitVal(w)}) < MaxRootWrites
  /\ x # Mine(t)[v]

DirectWrite(t, v, x) ==
  /\ CanRootWrite(t, v, x)
  /\ slots' = [slots EXCEPT ![SlotOf(t)][v] = x]
  /\ UNCHANGED th

\* a tramp! invocation starts: its expansion is what runs next
Invoked(t, bs, code) ==
  [th[t] EXCEPT !.st = "run",
                !.code = code \o <<End>> \o @,
                !.acts = Append(@, Act(bs, Mine(t))),
                !.log = SelectSeq(@, LAMBDA e : e.d <= Depth(t))]

TrampEnter(t, bs) ==
  /\ th[t].st = "idle"
  /\ th' = [th EXCEPT ![t] = Invoked(t, bs, Expand(bs))]
  /\ UNCHANGED slots

\* ---- statements of the expansion ----------------------------------------
\* let old = $ih.with(|x| { let old = x.borrow().clone();
\*                          *x.borrow_mut() = $eh; old });
\* $eh is evaluated after the capture and before the slot is assigned; when
\* it panics the slot is not written and `old` is never bound
\* x.borrow() and x.borrow_mut() panic when user code holds a conflicting
\* borrow of the cell
Panicked(t, x, fail) ==
  [th[t] EXCEPT !.st = "panic",
                !.err = Value(x),
                !.fail = fail,
                !.acts = BlocksLeft(@, Len(@) - 1, "panic", x),
                !.code = Skip(Tail(@), 0)]

Install(t) ==
  /\ th[t].st = "run"
  /\ AtOp(t, "inst")
  /\ LET i == Head(th[t].code)
         old == OldValue(Mine(t), i.e, i.v)
         evald == EvalSlots(i.e, Mine(t), i.v)
     IN IF ~CanBorrow(th[t].bor, i.v)
        THEN /\ th' = [th EXCEPT ![t] = Panicked(t, BorrowPayload, "install")]
             /\ UNCHANGED slots
        ELSE IF Unwinds(i.e)
        THEN /\ th' = [th EXCEPT ![t] = Panicked(t, i.e.val, "-")]
             /\ slots' = [slots EXCEPT ![SlotOf(t)] = evald]
        ELSE IF ~CanBorrowMut(th[t].bor, i.v)
        THEN /\ th' = [th EXCEPT ![t] = Panicked(t, BorrowPayload, "install")]
             /\ slots' = [slots EXCEPT ![SlotOf(t)] = evald]
        ELSE /\ slots' = [slots EXCEPT ![SlotOf(t)] =
                                        [evald EXCEPT ![i.v] = EvalValue(i.e, Mine(t))]]
             /\ th' = [th EXCEPT ![t].cap = <<Guard(i.v, old)>>,
                                 ![t].code = Tail(@),
                                 ![t].log = Append(@, Event("install", i.v, Depth(t)))]

\* defer![$ih.with(|x| { *x.borrow_mut() = old.clone(); })];
DeferStmt(t) ==
  /\ th[t].st = "run"
  /\ AtOp(t, "defer")
  /\ th' = [th EXCEPT ![t].scopes = Append(Butlast(@), Append(Last(@), Head(th[t].cap))),
                      ![t].cap = <<>>,
                      ![t].code = Tail(@)]
  /\ UNCHANGED slots

OpenScope(t) ==
  /\ th[t].st = "run"
  /\ AtOp(t, "open")
  /\ th' = [th EXCEPT ![t].scopes = Append(@, <<>>), ![t].code = Tail(@)]
  /\ UNCHANGED slots

\* the end of a block scope, reached by fallthrough or while unwinding
\* a guard whose borrow_mut() panics does not write; its panic starts an
\* unwind, or terminates the process when one is already going on
CloseScope(t) ==
  /\ th[t].st \in {"run", "panic", "return"}
  /\ AtOp(t, "close")
  /\ LET gs == Last(th[t].scopes)
         ok == Runnable(gs, th[t].bor)
         st1 == IF Len(ok) = Len(gs) THEN AfterGuard(th[t].st)
                ELSE IF th[t].st = "panic" THEN "abort" ELSE "panic"
     IN /\ slots' = [slots EXCEPT ![SlotOf(t)] = FireSlots(@, ok)]
        /\ th' = [th EXCEPT
                   ![t].scopes = Butlast(@),
                   ![t].st = st1,
                   ![t].err = IF Len(ok) = Len(gs) THEN @ ELSE Value(BorrowPayload),
                   ![t].fail = IF Len(ok) = Len(gs) THEN @ ELSE "restore",
                   ![t].acts = IF Len(ok) = Len(gs) \/ st1 = "abort" THEN @
                               ELSE BlocksLeft(@, Len(@) - 1, "panic", BorrowPayload),
                   ![t].code = IF st1 = "abort" THEN <<>> ELSE Rest(st1, @),
                   ![t].log = @ \o FireLog(ok, Depth(t))]

\* tramp![rest => $b];  -- the statement's value is dropped
Semi(t) ==
  /\ th[t].st = "run"
  /\ AtOp(t, "semi")
  /\ th' = [th EXCEPT ![t].val = Unit, ![t].code = Tail(@)]
  /\ UNCHANGED slots

\* control passes the end of the invocation
Leave(t) ==
  /\ th[t].st \in {"run", "panic", "return"}
  /\ AtOp(t, "end")
  /\ th' = [th EXCEPT ![t].acts = Butlast(@),
                      ![t].fin = IF Depth(t) = 1 THEN <<Last(th[t].acts)>> ELSE @,
                      ![t].code = Rest(th[t].st, @),
                      ![t].st = IF Depth(t) = 1 THEN "done" ELSE @,
                      ![t].how = IF Depth(t) = 1 THEN th[t].st ELSE @]
  /\ UNCHANGED slots

\* ---- the block $b -------------------------------------------------------
InBlock(t) == th[t].st = "run" /\ AtOp(t, "blk")

MarkWrote(acts) == [d \in 1 .. Len(acts) |-> [acts[d] EXCEPT !.wrote = TRUE]]

CanBlockWrite(t, v, x) ==
  /\ InBlock(t)
  /\ th[t].nw < MaxWrites
  /\ x # Mine(t)[v]

Written(t) == [th[t] EXCEPT !.acts = MarkWrote(@), !.nw = @ + 1]

BlockWrite(t, v, x) ==
  /\ CanBlockWrite(t, v, x)
  /\ slots' = [slots EXCEPT ![SlotOf(t)][v] = x]
  /\ th' = [th EXCEPT ![t] = Written(t)]

\* the block invokes tramp! itself
BlockTramp(t, bs) ==
  /\ InBlock(t)
  /\ Depth(t) < MaxDepth
  /\ th' = [th EXCEPT ![t] = Invoked(t, bs, Expand(bs))]
  /\ UNCHANGED slots

\* the block ends: with a value, by `return`, or by panicking
Exited(t, kind, x) ==
  [th[t] EXCEPT !.st = kind,
                !.val = IF kind = "panic" THEN @ ELSE Value(x),
                !.err = IF kind = "panic" THEN Value(x) ELSE @,
                !.acts = IF kind = "run"
                         THEN [@ EXCEPT ![Len(@)].bexit = kind, ![Len(@)].bval = Value(x)]
                         ELSE BlocksLeft(@, Len(@), kind, x),
                !.code = Rest(kind, @)]

BlockExit(t, kind, x) ==
  /\ InBlock(t)
  /\ th' = [th EXCEPT ![t] = Exited(t, kind, x)]
  /\ UNCHANGED slots

ExitKinds == {"run", "panic", "return"}

Step(t) ==
  \/ Install(t)
  \/ DeferStmt(t)
  \/ OpenScope(t)
  \/ CloseScope(t)
  \/ Semi(t)
  \/ Leave(t)

\* ---- Spec: one thread, all inputs ---------------------------------------
Main == {1}

Next ==
  \E t \in Main :
    \/ \E v \in Vars, x \in Vals : DirectWrite(t, v, x)
    \/ \E bs \in BindLists : TrampEnter(t, bs)
    \/ Step(t)
    \/ \E v \in Vars, x \in Vals : BlockWrite(t, v, x)
    \/ \E bs \in InnerLists : BlockTramp(t, bs)
    \/ \E k \in ExitKinds, x \in NewVals : BlockExit(t, k, x)

Spec == Init /\ [][Next]_vars

\* ---- SpecConc: two threads overlay the same variables --------------------
\* thread t installs the value TempVal(t) and may have assigned PriorVal(t)
\* before, so no value of one thread is a value of the other
TempVal(t) == t
PriorVal(t) == t + Cardinality(Threads)
ConcLists(t) == ListsOver({Binding(v, Const(TempVal(t))) : v \in Vars}, 1, MaxBind - 1)

NextConc ==
  \E t \in Threads :
    \/ \E v \in Vars : DirectWrite(t, v, PriorVal(t))
    \/ \E bs \in ConcLists(t) : TrampEnter(t, bs)
    \/ Step(t)
    \/ \E k \in ExitKinds : BlockExit(t, k, t)

SpecConc == Init /\ [][NextConc]_vars

\* ---- SpecWrites: the block assigns the slots any number of times ----------
BlockAssign(t, v, x) ==
  /\ InBlock(t)
  /\ x # Mine(t)[v]
  /\ slots' = [slots EXCEPT ![SlotOf(t)][v] = x]
  /\ th' = [th EXCEPT ![t].acts = MarkWrote(@)]

ConstLists == ListsOver({Binding(v, Const(x)) : v \in Vars, x \in NewVals}, 1, MaxBind - 1)

NextWrites ==
  \E t \in Main :
    \/ \E v \in Vars, x \in Vals : DirectWrite(t, v, x)
    \/ \E bs \in ConstLists : TrampEnter(t, bs)
    \/ Step(t)
    \/ \E v \in Vars, x \in Vals : BlockAssign(t, v, x)
    \/ \E k \in ExitKinds, x \in NewVals : BlockExit(t, k, x)

SpecWrites == Init /\ [][NextWrites]_vars

\* ---- SpecExpr: new-value expressions that read and assign slots ----------
\* $eh is any expression: it may read a slot, or assign the slot it is bound
\* to before yielding a different value or panicking
RichExprs ==
  Exprs \cup {ReadOf(v) : v \in Vars} \cup {WriteThenPanics(w) : w \in NewVals}
        \cup {WriteThen(wx[1], wx[2]) :
                wx \in {p \in NewVals \X NewVals : p[1] # p[2]}}
ExprLists == ListsOver({Binding(v, e) : v \in Vars, e \in RichExprs}, 1, MaxBind - 1)

NextExpr ==
  \E t \in Main :
    \/ \E v \in Vars, x \in Vals : DirectWrite(t, v, x)
    \/ \E bs \in ExprLists : TrampEnter(t, bs)
    \/ Step(t)
    \/ \E k \in ExitKinds, x \in NewVals : BlockExit(t, k, x)

SpecExpr == Init /\ [][NextExpr]_vars

\* ---- SpecArms: binding lists of every length ------------------------------
\* st = "rejected": the invocation does not compile; nothing of it runs
TrampTokens(t, bs, comma) ==
  /\ th[t].st = "idle"
  /\ th' = [th EXCEPT ![t] =
              IF Compiles(ExpandTokens(bs, comma))
              THEN Invoked(t, bs, ExpandTokens(bs, comma))
              ELSE [th[t] EXCEPT !.st = "rejected", !.fin = <<Act(bs, Mine(t))>>]]
  /\ UNCHANGED slots

TokenLists == ListsOver({Binding(v, Const(x)) : v \in Vars, x \in NewVals}, 0, MaxBind - 1)

NextArms ==
  \E t \in Main :
    \/ \E bs \in TokenLists, comma \in BOOLEAN : TrampTokens(t, bs, comma)
    \/ Step(t)
    \/ \E k \in ExitKinds, x \in NewVals : BlockExit(t, k, x)

SpecArms == Init /\ [][NextArms]_vars

\* ---- SpecBorrow: user code holds borrows of the cells ---------------------
\* the caller takes a borrow of the cell and keeps it around the invocation:
\* FOO.with(|x| { let r = x.borrow(); tramp! { .. } })
CallerBorrow(t, v, m) ==
  /\ th[t].st = "idle"
  /\ th[t].bor[v] = "free"
  /\ th' = [th EXCEPT ![t].bor[v] = m]
  /\ UNCHANGED slots

\* the block takes a borrow and stores it in a variable of the caller, so it
\* is still out when the block ends
BlockBorrow(t, v, m) ==
  /\ InBlock(t)
  /\ th[t].bor[v] = "free"
  /\ th' = [th EXCEPT ![t].bor[v] = m]
  /\ UNCHANGED slots

BorrowModes == {"shared", "mut"}
BorrowLists == ListsOver({Binding(v, Const(x)) : v \in Vars, x \in NewVals}, 1, MaxBind - 1)

NextBorrow ==
  \E t \in Main :
    \/ \E v \in Vars, m \in BorrowModes : CallerBorrow(t, v, m)
    \/ \E bs \in BorrowLists : TrampEnter(t, bs)
    \/ Step(t)
    \/ \E v \in Vars, m \in BorrowModes : BlockBorrow(t, v, m)
    \/ \E k \in ExitKinds, x \in NewVals : BlockExit(t, k, x)

SpecBorrow == Init /\ [][NextBorrow]_vars

\* ---- SpecEq: the macro form and the hand-nested form side by side --------
\* thread 1 runs tramp!{V1: n1, ..., Vk: nk => $b}, thread 2 runs
\* tramp!{V1: n1 => { ... tramp!{Vk: nk => $b} ... }}; caller and block do
\* the same thing in both
EqDirectWrite(v, x) ==
  /\ CanRootWrite(1, v, x)
  /\ CanRootWrite(2, v, x)
  /\ slots' = [slots EXCEPT ![SlotOf(1)][v] = x, ![SlotOf(2)][v] = x]
  /\ UNCHANGED th

EqEnter(bs) ==
  /\ th[1].st = "idle"
  /\ th[2].st = "idle"
  /\ th' = [th EXCEPT ![1] = Invoked(1, bs, Expand(bs)),
                      ![2] = Invoked(2, bs, NestedExpand(bs))]
  /\ UNCHANGED slots

EqBlockWrite(v, x) ==
  /\ CanBlockWrite(1, v, x)
  /\ CanBlockWrite(2, v, x)
  /\ slots' = [slots EXCEPT ![SlotOf(1)][v] = x, ![SlotOf(2)][v] = x]
  /\ th' = [th EXCEPT ![1] = Written(1), ![2] = Written(2)]

EqBlockExit(kind, x) ==
  /\ InBlock(1)
  /\ InBlock(2)
  /\ th' = [th EXCEPT ![1] = Exited(1, kind, x), ![2] = Exited(2, kind, x)]
  /\ UNCHANGED slots

NextEq ==
  \/ \E v \in Vars, x \in Vals : EqDirectWrite(v, x)
  \/ \E bs \in BindLists : EqEnter(bs)
  \/ \E t \in Threads : Step(t)
  \/ \E v \in Vars, x \in Vals : EqBlockWrite(v, x)
  \/ \E k \in ExitKinds, x \in NewVals : EqBlockExit(k, x)

SpecEq == Init /\ [][NextEq]_vars

\* ---- properties ----------------------------------------------------------
Top(t) == Last(th[t].acts)
BoundVars(bs) == {bs[i].v : i \in 1 .. Len(bs)}
Distinct(bs) == \A i, j \in 1 .. Len(bs) : i # j => bs[i].v # bs[j].v
\* the invocation's statements are all behind, control is about to go on
AtEnd(t) == th[t].st \in {"run", "panic", "return"} /\ AtOp(t, "end")
Restored(t) == \A v \in BoundVars(Top(t).bs) : Mine(t)[v] = Top(t).snap[v]
EventsAt(t, d) == SelectSeq(th[t].log, LAMBDA e : e.d = d)
Count(t, d, k) == Len(SelectSeq(th[t].log, LAMBDA e : e.d = d /\ e.k = k))

\* C1: when the block completed normally and the invocation has run to its
\* end, every bound variable reads the value it had when the invocation
\* started
C1_RestoredOnNormalExit ==
  \A t \in Threads :
    (AtEnd(t) /\ th[t].st = "run") => Restored(t)

C1_Witness ==
  /\ AtEnd(1) /\ th[1].st = "run" /\ Depth(1) = 1
  /\ Len(Top(1).bs) >= 2
  /\ Count(1, 1, "restore") >= 2
  /\ \E v \in BoundVars(Top(1).bs) : Top(1).snap[v] # InitVal(v)

\* C2: when the block ended by panic or by `return`, every bound variable
\* reads its value from before the invocation once control is past the
\* invocation's scopes
C2_RestoredOnAbnormalExit ==
  \A t \in Threads :
    (AtEnd(t) /\ Top(t).bexit \in {"panic", "return"}) => Restored(t)

C2_Witness ==
  /\ AtEnd(1) /\ Depth(1) = 1
  /\ Top(1).bexit = "return"
  /\ Len(Top(1).bs) >= 2
  /\ Top(1).wrote
  /\ Count(1, 1, "restore") >= 2

\* C3: while the block runs and user code has written no slot, every
\* variable of a binding list without repeated variables reads its new value
C3_BlockReadsNewValues ==
  \A t \in Threads :
    (InBlock(t) /\ ~Top(t).wrote /\ Distinct(Top(t).bs)) =>
      \A i \in 1 .. Len(Top(t).bs) : Mine(t)[Top(t).bs[i].v] = Top(t).bs[i].e.val

C3_Witness ==
  /\ InBlock(1) /\ ~Top(1).wrote /\ Depth(1) = 1
  /\ Len(Top(1).bs) = 2 /\ Distinct(Top(1).bs)
  /\ \A v \in Vars : Mine(1)[v] # Top(1).snap[v]

\* C4: the macro form (thread 1) and the hand-nested single-binding form
\* (thread 2), given the same bindings, caller and block: the block runs in
\* one exactly when it runs in the other and sees the same slot values, and
\* both end the same way with the same slot values
C4_MultiEqualsNested ==
  /\ (InBlock(1) /\ InBlock(2)) => Mine(1) = Mine(2)
  /\ (th[1].st = "done" /\ th[2].st = "done") =>
       /\ Mine(1) = Mine(2)
       /\ th[1].how = th[2].how
       /\ th[1].err = th[2].err
       /\ th[1].fin[1].bexit = th[2].fin[1].bexit
  /\ ~(th[1].st = "done" /\ InBlock(2))
  /\ ~(th[2].st = "done" /\ InBlock(1))

C4_Witness ==
  /\ th[1].st = "done" /\ th[2].st = "done"
  /\ Len(th[1].fin[1].bs) = 3
  /\ th[1].fin[1].wrote
  /\ th[1].fin[1].bexit = "run"
  /\ \E v \in Vars : Mine(1)[v] # InitVal(v)

\* C5: the invocation's value is the value of its block, and the bound
\* variables are restored by the time it is delivered
C5_ReturnsBlockValue ==
  \A t \in Threads :
    (AtEnd(t) /\ th[t].st = "run") => (th[t].val = Top(t).bval /\ Restored(t))

\* installs of bindings 1 .. j in order, then the restores of the last r of
\* them in reverse order
OrderedLog(bs, j, r, d) ==
  [n \in 1 .. j + r |->
     IF n <= j THEN Event("install", bs[n].v, d)
     ELSE Event("restore", bs[2 * j + 1 - n].v, d)]

\* C6: the slot writes of one invocation are the installs in declaration
\* order followed by the restores in reverse order; all installs precede
\* the block, no restore happens before the block has ended, and at the end
\* of the invocation every install has been undone
C6_InstallOrderRestoreReverse ==
  \A t \in Threads : \A d \in 1 .. Depth(t) :
    LET a == th[t].acts[d]
        k == Len(a.bs)
    IN \E j \in 0 .. k : \E r \in 0 .. j :
         /\ EventsAt(t, d) = OrderedLog(a.bs, j, r, d)
         /\ (d < Depth(t) \/ InBlock(t)) => (j = k /\ r = 0)
         /\ a.bexit # "-" => j = k
         /\ (r > 0 /\ j = k) => a.bexit # "-"
         /\ (d = Depth(t) /\ AtEnd(t)) => r = j
         /\ (d = Depth(t) /\ AtEnd(t) /\ th[t].st = "run") => j = k

C6_Witness ==
  /\ AtEnd(1) /\ th[1].st = "run" /\ Depth(1) = 1
  /\ Len(Top(1).bs) = 3
  /\ Top(1).bs[1].v # Top(1).bs[2].v
  /\ Len(EventsAt(1, 1)) = 6

\* the value the last binding of v in bs installs
LastVal(bs, v) ==
  bs[CHOOSE i \in 1 .. Len(bs) :
       bs[i].v = v /\ \A j \in i + 1 .. Len(bs) : bs[j].v # v].e.val

Outer(t) == th[t].acts[Depth(t) - 1]
\* a nested invocation is active and user code has written no slot directly
NestedClean(t) == Depth(t) >= 2 /\ ~Outer(t).wrote

\* C7: an overlay entered inside the block of another one captures the
\* values the outer one installed; its block reads the inner values; after
\* it the variables of the outer overlay read the outer values again; after
\* the outer overlay they read the values from before it
C7_NestedOverlay ==
  \A t \in Threads :
    /\ (NestedClean(t) /\ InBlock(t)) =>
         \A i \in 1 .. Len(Top(t).bs) :
           LET v == Top(t).bs[i].v
           IN /\ Distinct(Top(t).bs) => Mine(t)[v] = Top(t).bs[i].e.val
              /\ v \in BoundVars(Outer(t).bs) =>
                   \E s \in 1 .. Len(th[t].scopes) : \E g \in 1 .. Len(th[t].scopes[s]) :
                     th[t].scopes[s][g] = Guard(v, LastVal(Outer(t).bs, v))
    /\ (NestedClean(t) /\ AtEnd(t)) =>
         \A v \in BoundVars(Outer(t).bs) : Mine(t)[v] = LastVal(Outer(t).bs, v)
    /\ (Depth(t) = 1 /\ AtEnd(t) /\ EventsAt(t, 2) # <<>>) => Restored(t)

\* the inner overlay has ended; it had rebound a variable of the outer one,
\* whose value before the outer overlay was a third value
C7_Witness ==
  /\ NestedClean(1) /\ AtEnd(1) /\ th[1].st = "run"
  /\ Len(Outer(1).bs) = 2 /\ Distinct(Outer(1).bs)
  /\ \E v \in BoundVars(Outer(1).bs) :
       /\ Top(1).bs[1].v = v
       /\ Top(1).bs[1].e.val # LastVal(Outer(1).bs, v)
       /\ Outer(1).snap[v] # LastVal(Outer(1).bs, v)
       /\ Outer(1).snap[v] # Top(1).bs[1].e.val
       /\ Count(1, 2, "restore") = 1

\* C8: a thread never reads a value the other thread installed or assigned,
\* and when its overlay is over its slots hold its own earlier values again
C8_ThreadIsolation ==
  \A t \in Threads :
    /\ \A v \in Vars : \A u \in Threads \ {t} : Mine(t)[v] \notin {TempVal(u), PriorVal(u)}
    /\ AtEnd(t) => Restored(t)
    /\ th[t].st = "done" => \A v \in Vars : Mine(t)[v] = th[t].fin[1].snap[v]

\* both threads are in their blocks with the same variable overridden
C8_Witness ==
  /\ \A t \in Threads :
       /\ InBlock(t)
       /\ Mine(t)["FOO"] = TempVal(t)
       /\ Top(t).snap["FOO"] = PriorVal(t)

\* C9: when a multi-binding invocation is left by a panic - of a new-value
\* expression or of the block - every install it made has been undone by
\* its restoration and its variables read their values from before it
C9_PartialFailureRestores ==
  \A t \in Threads :
    (AtEnd(t) /\ th[t].st = "panic" /\ Len(Top(t).bs) >= 2) =>
      /\ Count(t, Depth(t), "restore") = Count(t, Depth(t), "install")
      /\ Restored(t)

\* the expression of the third binding panicked after two installs
C9_Witness ==
  /\ AtEnd(1) /\ th[1].st = "panic" /\ Depth(1) = 1
  /\ Len(Top(1).bs) = 3
  /\ Top(1).bs[3].e.kind = "panic"
  /\ Top(1).bexit = "-"
  /\ Top(1).bs[1].v # Top(1).bs[2].v
  /\ Count(1, 1, "restore") = 2

\* C10: a panic of the block reaches the caller as that panic, with the
\* same payload, and the bound variables are restored by then
C10_ErrorTransparent ==
  \A t \in Threads :
    /\ (AtEnd(t) /\ Top(t).bexit = "panic") =>
         (th[t].st = "panic" /\ th[t].err = Top(t).bval /\ Restored(t))
    /\ (th[t].st = "done" /\ th[t].fin[1].bexit = "panic") =>
         /\ th[t].how = "panic"
         /\ th[t].err = th[t].fin[1].bval
         /\ \A v \in BoundVars(th[t].fin[1].bs) : Mine(t)[v] = th[t].fin[1].snap[v]

C10_Witness ==
  /\ th[1].st = "done" /\ th[1].how = "panic"
  /\ Len(th[1].fin[1].bs) >= 2
  /\ th[1].fin[1].bexit = "panic"
  /\ th[1].err = Value(MaxVal)
  /\ Count(1, 1, "restore") >= 2
  /\ Count(1, 2, "restore") >= 1

\* C11: the macro's own install and restore never fail, whatever borrows of
\* the cells user code holds
C11_InstallRestoreNeverFail ==
  \A t \in Threads : th[t].fail = "-" /\ th[t].st # "abort"

RECURSIVE Flat(_)
Flat(ss) == IF ss = <<>> THEN <<>> ELSE Head(ss) \o Flat(Tail(ss))
LogCount(t, k) == Len(SelectSeq(th[t].log, LAMBDA e : e.k = k))

\* C12: every completed install has exactly one restoration: it is pending
\* (bound to `old` or registered as a guard of an open scope) or it has fired
\* once; at the end of the invocation, whichever way its scopes were left, it
\* has fired
C12_RestoreExactlyOnce ==
  \A t \in Threads :
    /\ th[t].st \in {"run", "panic", "return"} =>
         LogCount(t, "install") =
           LogCount(t, "restore") + Len(Flat(th[t].scopes)) + Len(th[t].cap)
    /\ \A d \in 1 .. Depth(t) : Count(t, d, "restore") <= Count(t, d, "install")
    /\ AtEnd(t) => Count(t, Depth(t), "restore") = Count(t, Depth(t), "install")
    /\ th[t].st = "done" =>
         /\ th[t].scopes = <<>>
         /\ Count(t, 1, "restore") = Count(t, 1, "install")

C12_Witness ==
  /\ th[1].st = "done" /\ th[1].how = "return"
  /\ Count(1, 1, "install") = 3
  /\ Count(1, 1, "restore") = 3
  /\ Count(1, 2, "restore") = 1

\* C13: an invocation with an empty binding list, or one whose recursion
\* comes down to an empty binding list, is expanded and runs its block
C13_EmptyListRunsBlock ==
  \A t \in Threads : th[t].st # "rejected"

\* C14: whatever the block has assigned to the slots, the guard of a bound
\* variable still holds the value captured when the invocation started, and
\* at the end of the invocation the variable reads that value
C14_CapturedCopyIndependent ==
  \A t \in Threads :
    /\ (InBlock(t) /\ Top(t).wrote) =>
         \A v \in BoundVars(Top(t).bs) :
           \E n \in 1 .. Len(Flat(th[t].scopes)) :
             Flat(th[t].scopes)[n] = Guard(v, Top(t).snap[v])
    /\ (AtEnd(t) /\ Top(t).wrote) => Restored(t)

\* the block of an overlay of both variables assigned slots, ending with
\* values that were neither installed nor there before, and fell through
C14_Witness ==
  /\ AtEnd(1) /\ th[1].st = "run" /\ Depth(1) = 1
  /\ Top(1).wrote
  /\ EventsAt(1, 2) = <<>>
  /\ Distinct(Top(1).bs) /\ Len(Top(1).bs) = 2
  /\ \E v \in Vars : Top(1).snap[v] # InitVal(v)
  /\ Count(1, 1, "restore") = 2

\* the variables bound by some invocation that is active on thread t
ActiveBound(t) == UNION {BoundVars(th[t].acts[d].bs) : d \in 1 .. Depth(t)}

\* C15: from the start of an invocation to its end, a variable that no
\* active binding list names reads the value it had when the outermost
\* invocation started, as long as no block has written a slot
C15_UnboundUnchanged ==
  \A t \in Threads :
    (Depth(t) >= 1 /\ ~th[t].acts[1].wrote) =>
      \A v \in Vars \ ActiveBound(t) : Mine(t)[v] = th[t].acts[1].snap[v]

\* an overlay of one variable has installed, run its block and restored
\* while the other variable held a value of its own
C15_Witness ==
  /\ AtEnd(1) /\ th[1].st = "run" /\ Depth(1) = 1
  /\ ~Top(1).wrote
  /\ Len(Top(1).bs) = 1
  /\ Count(1, 1, "install") = 1 /\ Count(1, 1, "restore") = 1
  /\ \E v \in Vars \ BoundVars(Top(1).bs) :
       Mine(1)[v] # InitVal(v) /\ Mine(1)[v] # Top(1).bs[1].e.val

\* C16: when a binding list names a variable more than once, the block reads
\* the value of the variable's last binding, and at the end of the invocation
\* the variable reads the value it had when the invocation started
C16_RepeatedVariable ==
  \A t \in Threads :
    (Depth(t) >= 1 /\ ~Distinct(Top(t).bs)) =>
      /\ (InBlock(t) /\ ~Top(t).wrote) =>
           \A v \in BoundVars(Top(t).bs) : Mine(t)[v] = LastVal(Top(t).bs, v)
      /\ AtEnd(t) => Restored(t)

\* (V: n1, V: n2) with n1 # n2 has run its block and restored twice; V reads
\* the value from before, which is neither n1 nor n2
C16_Witness ==
  /\ AtEnd(1) /\ th[1].st = "run" /\ Depth(1) = 1
  /\ Len(Top(1).bs) = 2
  /\ Top(1).bs[1].v = Top(1).bs[2].v
  /\ Top(1).bs[1].e.val # Top(1).bs[2].e.val
  /\ Count(1, 1, "restore") = 2
  /\ LET v == Top(1).bs[1].v
     IN /\ Mine(1)[v] = Top(1).snap[v]
        /\ Mine(1)[v] # Top(1).bs[1].e.val
        /\ Mine(1)[v] # Top(1).bs[2].e.val

\* what the bindings before the i-th leave in variable v, and what the i-th
\* binding assigns, for a list bs entered with the slots at snap
RECURSIVE Seen(_, _, _, _)
Seen(bs, snap, i, v) ==
  LET before == {j \in 1 .. i - 1 : bs[j].v = v}
  IN IF before = {} THEN snap[v]
     ELSE LET j == CHOOSE m \in before : \A n \in before : n <= m
          IN IF bs[j].e.kind = "read" THEN Seen(bs, snap, j, bs[j].e.src)
             ELSE bs[j].e.val

\* C17: the i-th new-value expression sees the slots as the bindings before
\* it left them, the restoration of the i-th binding holds the value from
\* before its expression ran, the variables read their entry values at the
\* end even when an expression assigned its own slot, and a panicking
\* expression leaves its binding without an install and without a guard: the
\* variable then keeps what was in it when the expression panicked
C17_CaptureThenEvaluate ==
  \A t \in Threads :
    (Depth(t) = 1) =>
      LET a == Top(t)
          k == Len(a.bs)
      IN /\ InBlock(t) =>
              /\ \A v \in BoundVars(a.bs) : Mine(t)[v] = Seen(a.bs, a.snap, k + 1, v)
              /\ Len(Flat(th[t].scopes)) = k
              /\ \A i \in 1 .. k :
                   Flat(th[t].scopes)[i] = Guard(a.bs[i].v, Seen(a.bs, a.snap, i, a.bs[i].v))
         /\ (AtEnd(t) /\ a.bexit # "-") => Restored(t)
         /\ (th[t].st = "panic" /\ a.bexit = "-") =>
              LET j == Count(t, 1, "install")
              IN /\ j < k
                 /\ Unwinds(a.bs[j + 1].e)
                 /\ th[t].cap = <<>>
                 /\ Len(Flat(th[t].scopes)) + Count(t, 1, "restore") = j
                 /\ AtEnd(t) =>
                      \A v \in BoundVars(a.bs) :
                        Mine(t)[v] =
                          IF /\ v = a.bs[j + 1].v
                             /\ a.bs[j + 1].e.kind = "wpanic"
                             /\ \A m \in 1 .. j : a.bs[m].v # v
                          THEN a.bs[j + 1].e.w
                          ELSE a.snap[v]

\* (V: {V = w; x}, W: read V) ran its block and restored both; V reads the
\* value from before, which is not the one the expression assigned
C17_Witness ==
  /\ AtEnd(1) /\ th[1].st = "run" /\ Depth(1) = 1
  /\ Len(Top(1).bs) = 2
  /\ Top(1).bs[1].e.kind = "write"
  /\ Top(1).bs[2].e.kind = "read"
  /\ Top(1).bs[2].e.src = Top(1).bs[1].v
  /\ Top(1).bs[2].v # Top(1).bs[1].v
  /\ Count(1, 1, "restore") = 2
  /\ Mine(1)[Top(1).bs[1].v] = Top(1).snap[Top(1).bs[1].v]
  /\ Mine(1)[Top(1).bs[1].v] # Top(1).bs[1].e.w
====
